---------------------------- MODULE Spec2Model ----------------------------
(***************************************************************************)
(* Model of validation/validators.py: verify_type_and_range and            *)
(* validate_device_data.                                                   *)
(*                                                                         *)
(* Python values are records [t, i, s, d]: t is the name of type(value),   *)
(* i the integer payload (an int, a bool as 0/1, the integral part of a    *)
(* float), s the characters of a str (a sequence of one-character          *)
(* strings), d the items of a dict in insertion order, each [k, v].        *)
(* Dictionary keys are TLA+ strings: the code only compares them.          *)
(***************************************************************************)
EXTENDS Integers, Sequences, FiniteSets, TLC

VARIABLES
    pc,           \* position of the call inside validate_device_data
    device_data,  \* the record argument: a sequence of [k, v] items
    new_device,   \* the keyword argument new_device
    device_type,  \* the local device_type (argument, reassigned at line 164)
    errors,       \* the local list `errors`
    field_i,      \* index of `field` in the loop of line 180
    key_i,        \* index of `key` in the per-key loop over parameters
    result,       \* what the call returned: [ok, errors], or NoResult
    log,          \* records emitted through logger.error, in order
    globals,      \* the module-level configuration sets (mutable Python sets)
    current,      \* the call whose frame the variables above hold
    saved         \* the frames of the calls that are switched out, by call

vars == <<pc, device_data, new_device, device_type, errors, field_i, key_i,
          result, log, globals, current, saved>>

-----------------------------------------------------------------------------
(* Python values *)

Val(t, i, s, d) == [t |-> t, i |-> i, s |-> s, d |-> d]
PyInt(n) == Val("int", n, <<>>, <<>>)
PyBool(b) == Val("bool", IF b THEN 1 ELSE 0, <<>>, <<>>)
PyFloat(n) == Val("float", n, <<>>, <<>>)
PyStr(cs) == Val("str", 0, cs, <<>>)
PyNone == Val("NoneType", 0, <<>>, <<>>)
PyList == Val("list", 0, <<>>, <<>>)
PyDict(items) == Val("dict", 0, <<>>, items)
Item(k, v) == [k |-> k, v |-> v]

\* set(mapping.keys())
KeySet(items) == {items[n].k : n \in 1..Len(items)}
HasKey(items, k) == k \in KeySet(items)
\* mapping[k], for a key that is present
Lookup(items, k) == items[CHOOSE n \in 1..Len(items) : items[n].k = k].v

\* hash(value) raises TypeError for a list and for a dict
Hashable(v) == v.t \notin {"list", "dict"}

\* string literals of the source, as characters
s_empty == <<>>
s_light == <<"l","i","g","h","t">>
s_water_heater == <<"w","a","t","e","r","_","h","e","a","t","e","r">>
s_air_conditioner == <<"a","i","r","_","c","o","n","d","i","t","i","o","n","e","r">>
s_door_lock == <<"d","o","o","r","_","l","o","c","k">>
s_curtain == <<"c","u","r","t","a","i","n">>
s_on == <<"o","n">>
s_off == <<"o","f","f">>
s_locked == <<"l","o","c","k","e","d">>
s_unlocked == <<"u","n","l","o","c","k","e","d">>
s_open == <<"o","p","e","n">>
s_closed == <<"c","l","o","s","e","d">>
s_cool == <<"c","o","o","l">>
s_heat == <<"h","e","a","t">>
s_fan == <<"f","a","n">>
s_low == <<"l","o","w">>
s_medium == <<"m","e","d","i","u","m">>
s_high == <<"h","i","g","h">>
s_auto == <<"a","u","t","o">>

-----------------------------------------------------------------------------
(* Configuration, lines 26-71, with the defaults of the os.getenv calls *)

MIN_WATER_TEMP == 49
MAX_WATER_TEMP == 60
MIN_AC_TEMP == 16
MAX_AC_TEMP == 30
MIN_BRIGHTNESS == 0
MAX_BRIGHTNESS == 100
MIN_POSITION == 0
MAX_POSITION == 100
MIN_BATTERY == 0
MAX_BATTERY == 100

DEVICE_TYPES == {s_light, s_water_heater, s_air_conditioner, s_door_lock, s_curtain}
DEVICE_PARAMETERS == {"id", "type", "room", "name", "status", "parameters"}
WATER_HEATER_PARAMETERS ==
    {"temperature", "target_temperature", "is_heating", "timer_enabled",
     "scheduled_on", "scheduled_off"}
LIGHT_PARAMETERS == {"brightness", "color", "is_dimmable", "dynamic_color"}
AC_PARAMETERS == {"temperature", "mode", "fan_speed", "swing"}
AC_MODES == {s_cool, s_heat, s_fan}
AC_FAN_SETTINGS == {s_off, s_low, s_medium, s_high}
AC_SWING_MODES == {s_off, s_on, s_auto}
LOCK_PARAMETERS == {"auto_lock_enabled", "battery_level"}
CURTAIN_PARAMETERS == {"position"}

\* the module namespace after import: the sets the validator reads
InitialGlobals ==
    [DEVICE_TYPES |-> DEVICE_TYPES,
     DEVICE_PARAMETERS |-> DEVICE_PARAMETERS,
     WATER_HEATER_PARAMETERS |-> WATER_HEATER_PARAMETERS,
     LIGHT_PARAMETERS |-> LIGHT_PARAMETERS,
     AC_PARAMETERS |-> AC_PARAMETERS,
     AC_MODES |-> AC_MODES,
     AC_FAN_SETTINGS |-> AC_FAN_SETTINGS,
     AC_SWING_MODES |-> AC_SWING_MODES,
     LOCK_PARAMETERS |-> LOCK_PARAMETERS,
     CURTAIN_PARAMETERS |-> CURTAIN_PARAMETERS]

-----------------------------------------------------------------------------
(* Regular expressions, lines 70-71, as re.match applies them *)

Digits == {"0","1","2","3","4","5","6","7","8","9"}
HexDigits == Digits \cup {"a","b","c","d","e","f","A","B","C","D","E","F"}

\* `$` matches at the end of the string and just before a final newline
DollarBodies(cs) ==
    {cs} \cup (IF Len(cs) > 0 /\ cs[Len(cs)] = "\n"
               THEN {SubSeq(cs, 1, Len(cs) - 1)} ELSE {})

\* ([01][0-9]|2[0-3]):([0-5][0-9])
HoursMinutes(cs) ==
    /\ \/ cs[1] \in {"0","1"} /\ cs[2] \in Digits
       \/ cs[1] = "2" /\ cs[2] \in {"0","1","2","3"}
    /\ cs[3] = ":"
    /\ cs[4] \in {"0","1","2","3","4","5"}
    /\ cs[5] \in Digits

\* ^([01][0-9]|2[0-3]):([0-5][0-9])(:[0-5][0-9])?$
TIME_REGEX(cs) ==
    \E b \in DollarBodies(cs) :
        \/ Len(b) = 5 /\ HoursMinutes(b)
        \/ /\ Len(b) = 8
           /\ HoursMinutes(b)
           /\ b[6] = ":"
           /\ b[7] \in {"0","1","2","3","4","5"}
           /\ b[8] \in Digits

\* ^#([0-9A-Fa-f]{3}|[0-9A-Fa-f]{6})$
COLOR_REGEX(cs) ==
    \E b \in DollarBodies(cs) :
        /\ Len(b) \in {4, 7}
        /\ b[1] = "#"
        /\ \A n \in 2..Len(b) : b[n] \in HexDigits

-----------------------------------------------------------------------------
(* Error messages.  A message is a record of the parts its f-string is     *)
(* formatted from; kind names the f-string.                                *)

Msg(kind, name, value, cls, got, enum, keys1, keys2, lo, hi) ==
    [kind |-> kind, name |-> name, value |-> value, cls |-> cls, got |-> got,
     enum |-> enum, keys1 |-> keys1, keys2 |-> keys2, lo |-> lo, hi |-> hi]
\* Python None in the place of a reason
NoMsg == Msg("None", "", PyNone, "", "", {}, {}, {}, 0, 0)

\* f"{name} must be a numeric string, got {value} instead."
NumericError(name, value) == Msg("numeric", name, value, "", "", {}, {}, {}, 0, 0)
\* f"{name} must be between {minimum} and {maximum}, got {value} instead."
RangeError(name, lo, hi, value) == Msg("range", name, value, "", "", {}, {}, {}, lo, hi)
\* f"{name} must be a {cls}, got {type(value)} instead."
TypeMismatch(name, cls, value) == Msg("type", name, PyNone, cls, value.t, {}, {}, {}, 0, 0)
\* f"'{value}' is not a valid value for {name}. Must be one of {value_range}."
EnumError(name, value, allowed) == Msg("enum", name, value, "", "", allowed, {}, {}, 0, 0)
\* f"'{value}' is not a valid ISO format time string."
TimeError(value) == Msg("time", "", value, "", "", {}, {}, {}, 0, 0)
\* f"'{value}' is not a valid hex color string."
ColorError(value) == Msg("color", "", value, "", "", {}, {}, {}, 0, 0)
\* f"Incorrect field(s) in new device: {extra}, missing field(s) in new device:
\*   {missing}, must be exactly these fields: {DEVICE_PARAMETERS}"
FieldsError(extra, missing) == Msg("fields", "", PyNone, "", "", {}, extra, missing, 0, 0)
\* "Cannot update read-only parameter 'id'" (no final period)
ReadOnlyField(name) == Msg("readonly_field", name, PyNone, "", "", {}, {}, {}, 0, 0)
\* f"Cannot update read-only parameter '{key}'."
ReadOnlyParameter(key) == Msg("readonly_parameter", key, PyNone, "", "", {}, {}, {}, 0, 0)
\* f"Incorrect device type {device_type}, must be one of {DEVICE_TYPES}."
DeviceTypeError(dt, types) == Msg("device_type", "", dt, "", "", types, {}, {}, 0, 0)
\* f"Disallowed parameters for <label> {left_over_parameters}, allowed parameters: {...}"
DisallowedError(label, left_over, allowed) ==
    Msg("disallowed", label, PyNone, "", "", {}, left_over, allowed, 0, 0)

-----------------------------------------------------------------------------
(* int(value), line 109 *)

DigitValue(c) ==
    CASE c = "0" -> 0 [] c = "1" -> 1 [] c = "2" -> 2 [] c = "3" -> 3 [] c = "4" -> 4
      [] c = "5" -> 5 [] c = "6" -> 6 [] c = "7" -> 7 [] c = "8" -> 8 [] c = "9" -> 9

RECURSIVE DigitsValue(_, _)
DigitsValue(cs, acc) ==
    IF cs = <<>> THEN acc ELSE DigitsValue(Tail(cs), 10 * acc + DigitValue(Head(cs)))

\* the decimal literals int() accepts: an optional sign and one or more
\* digits (surrounding blanks and `_` separators are outside the strings
\* the model draws)
IsIntLiteral(cs) ==
    LET body == IF Len(cs) > 0 /\ cs[1] \in {"+", "-"} THEN Tail(cs) ELSE cs
    IN  Len(body) > 0 /\ \A n \in 1..Len(body) : body[n] \in Digits

LiteralValue(cs) ==
    IF cs[1] = "-" THEN 0 - DigitsValue(Tail(cs), 0)
    ELSE IF cs[1] = "+" THEN DigitsValue(Tail(cs), 0)
    ELSE DigitsValue(cs, 0)

\* int(value): the integer, or the exception it raises.  int, bool and float
\* define __int__ (a float truncates); a str is parsed and raises ValueError
\* when it is no literal; None, list and dict raise TypeError.
PyIntOf(value) ==
    CASE value.t \in {"int", "bool", "float"} -> [exc |-> "None", i |-> value.i]
      [] value.t = "str" ->
            IF IsIntLiteral(value.s)
            THEN [exc |-> "None", i |-> LiteralValue(value.s)]
            ELSE [exc |-> "ValueError", i |-> 0]
      [] OTHER -> [exc |-> "TypeError", i |-> 0]

-----------------------------------------------------------------------------
(* verify_type_and_range, lines 86-138 *)

\* the value_range argument
NoRange == [kind |-> "None", lo |-> 0, hi |-> 0, set |-> {}]
IntRange(lo, hi) == [kind |-> "tuple", lo |-> lo, hi |-> hi, set |-> {}]
StrSet(S) == [kind |-> "set", lo |-> 0, hi |-> 0, set |-> S]
TimeFormat == [kind |-> "time", lo |-> 0, hi |-> 0, set |-> {}]
ColorFormat == [kind |-> "color", lo |-> 0, hi |-> 0, set |-> {}]

\* outcomes of one call: the returned pair (ok, reason) with the records it
\* logged, or an exception that leaves the function
Returned(ok, reason, logged) ==
    [raised |-> FALSE, ok |-> ok, reason |-> reason, logged |-> logged]
Raised == [raised |-> TRUE, ok |-> FALSE, reason |-> NoMsg, logged |-> <<>>]
Failed(error) == Returned(FALSE, error, <<error>>)
Passed == Returned(TRUE, NoMsg, <<>>)

\* the upper bound excluded from the range
VerifyInt_Exclusive(value, name, value_range) ==
    LET n == PyIntOf(value) IN
    CASE n.exc = "TypeError" -> Raised
      [] n.exc = "ValueError" -> Failed(NumericError(name, value))
      [] OTHER ->
            IF /\ value_range.kind # "None"
               /\ (n.i >= value_range.hi \/ n.i < value_range.lo)
            THEN Failed(RangeError(name, value_range.lo, value_range.hi, PyInt(n.i)))
            ELSE Passed
\* lines 107-120: cls == int.  Only ValueError is caught.
VerifyInt(value, name, value_range) ==
    LET n == PyIntOf(value) IN
    CASE n.exc = "TypeError" -> Raised
      [] n.exc = "ValueError" -> Failed(NumericError(name, value))
      [] OTHER ->
            IF /\ value_range.kind # "None"
               /\ (n.i > value_range.hi \/ n.i < value_range.lo)
            THEN Failed(RangeError(name, value_range.lo, value_range.hi, PyInt(n.i)))
            ELSE Passed

\* lines 126-137: cls == str, after the type test
VerifyStr(value, name, value_range) ==
    CASE value_range.kind = "set" ->
            IF value.s \notin value_range.set
            THEN Failed(EnumError(name, value, value_range.set))
            ELSE Passed
      [] value_range.kind = "time" ->
            IF TIME_REGEX(value.s) THEN Passed
            ELSE Returned(FALSE, TimeError(value), <<>>)
      [] value_range.kind = "color" ->
            IF COLOR_REGEX(value.s) THEN Passed
            ELSE Returned(FALSE, ColorError(value), <<>>)
      [] OTHER -> Passed

verify_type_and_range(value, name, cls, value_range) ==
    IF cls = "int" THEN VerifyInt(value, name, value_range)
    ELSE IF value.t # cls THEN Failed(TypeMismatch(name, cls, value))
    ELSE IF cls = "str" THEN VerifyStr(value, name, value_range)
    ELSE Passed

-----------------------------------------------------------------------------
(* validate_device_data, lines 141-432: the pieces of its body *)

NoResult == [returned |-> FALSE, ok |-> FALSE, errors |-> <<>>]
Return(ok, errs) == [returned |-> TRUE, ok |-> ok, errors |-> errs]

\* mutant of ShapeError: only missing fields are an error
ShapeError_MissingOnly(data, G) ==
    IF ~(G.DEVICE_PARAMETERS \subseteq KeySet(data))
    THEN <<FieldsError(KeySet(data) \ G.DEVICE_PARAMETERS,
                       G.DEVICE_PARAMETERS \ KeySet(data))>>
    ELSE <<>>

\* lines 158-163: the key-set test of a new device and its message
ShapeError(data, G) ==
    IF KeySet(data) # G.DEVICE_PARAMETERS
    THEN <<FieldsError(KeySet(data) \ G.DEVICE_PARAMETERS,
                       G.DEVICE_PARAMETERS \ KeySet(data))>>
    ELSE <<>>

\* mutant of ReadOnlyFieldErrors: `elif "type" in device_data`
ReadOnlyFieldErrors_Elif(data) ==
    IF HasKey(data, "id") THEN <<ReadOnlyField("id")>>
    ELSE IF HasKey(data, "type") THEN <<ReadOnlyField("type")>>
    ELSE <<>>

\* lines 166-173: the read-only fields of an update, 'id' before 'type'
ReadOnlyFieldErrors(data) ==
    (IF HasKey(data, "id") THEN <<ReadOnlyField("id")>> ELSE <<>>)
    \o (IF HasKey(data, "type") THEN <<ReadOnlyField("type")>> ELSE <<>>)

\* mutant of KnownDeviceType: the membership test is lost
KnownDeviceType_Any(dt, G) == TRUE

\* line 176: device_type in DEVICE_TYPES, for a hashable device_type
KnownDeviceType(dt, G) == dt.t = "str" /\ dt.s \in G.DEVICE_TYPES

\* one enumeration for every device type
StatusValues_OnOff(dt) == {s_on, s_off}
\* lines 183-207: the status enumeration of the match statement
StatusValues(dt) ==
    CASE dt.s = s_door_lock -> {s_unlocked, s_locked}
      [] dt.s = s_curtain -> {s_open, s_closed}
      [] OTHER -> {s_on, s_off}

\* lines 181-210: the status field
CheckStatus(dt, value) ==
    verify_type_and_range(value, "'status'", "str", StrSet(StatusValues(dt)))

\* lines 222-224, 254-255, 272-273, 317-318, 377-378: the allowed set that
\* the matching case subtracts; no case matches any other type
HasCase(dt) ==
    dt.s \in {s_door_lock, s_curtain, s_air_conditioner, s_water_heater, s_light}
AllowedParameters(dt, G) ==
    CASE dt.s = s_door_lock -> G.LOCK_PARAMETERS
      [] dt.s = s_curtain -> G.CURTAIN_PARAMETERS
      [] dt.s = s_air_conditioner -> G.AC_PARAMETERS
      [] dt.s = s_water_heater -> G.WATER_HEATER_PARAMETERS
      [] dt.s = s_light -> G.LIGHT_PARAMETERS
      [] OTHER -> {}
CaseLabel(dt) ==
    CASE dt.s = s_door_lock -> "door lock"
      [] dt.s = s_curtain -> "curtain"
      [] dt.s = s_air_conditioner -> "air conditioner"
      [] dt.s = s_water_heater -> "water heater"
      [] dt.s = s_light -> "light"
      [] OTHER -> ""

\* mutant of LeftOverParameters: `!=` in the place of `-=`, every allowed
\* key becomes required
LeftOverParameters_Required(dt, parameters, G) ==
    (KeySet(parameters) \ AllowedParameters(dt, G))
    \cup (AllowedParameters(dt, G) \ KeySet(parameters))

\* mutant of LeftOverParameters: the door lock case subtracts the set of the
\* curtain case
LeftOverParameters_WrongSet(dt, parameters, G) ==
    KeySet(parameters) \ (IF dt.s = s_door_lock THEN G.CURTAIN_PARAMETERS
                          ELSE AllowedParameters(dt, G))

\* lines 221-230 (and the same lines of the other cases): left_over_parameters
\* is a new set, and -= changes that set only
LeftOverParameters(dt, parameters, G) == KeySet(parameters) \ AllowedParameters(dt, G)

\* the keys of the record are subtracted in place from the allowed set of the
\* case, not from a copy of the record's keys
GlobalsAfterLeftOver_InPlace(dt, parameters, G) ==
    CASE dt.s = s_door_lock ->
            [G EXCEPT !.LOCK_PARAMETERS = @ \ KeySet(parameters)]
      [] dt.s = s_curtain ->
            [G EXCEPT !.CURTAIN_PARAMETERS = @ \ KeySet(parameters)]
      [] dt.s = s_air_conditioner ->
            [G EXCEPT !.AC_PARAMETERS = @ \ KeySet(parameters)]
      [] dt.s = s_water_heater ->
            [G EXCEPT !.WATER_HEATER_PARAMETERS = @ \ KeySet(parameters)]
      [] dt.s = s_light ->
            [G EXCEPT !.LIGHT_PARAMETERS = @ \ KeySet(parameters)]
      [] OTHER -> G

\* lines 221-224 (and the same lines of the other cases): the module sets
\* after left_over_parameters is computed.  set(...) of line 221 builds a new
\* set and -= updates that set in place; the right operand is only read.
GlobalsAfterLeftOver(dt, parameters, G) == G

\* mutant of ReadOnlyKey: the new_device test is lost, the key is always refused
ReadOnlyKey_AlwaysRefused(key, value, nd) == Failed(ReadOnlyParameter(key))

\* mutant of ReadOnlyKey: the new_device test is lost, the key is always
\* checked as a boolean
ReadOnlyKey_AlwaysChecked(key, value, nd) ==
    verify_type_and_range(value, "'" \o key \o "'", "bool", NoRange)

\* the value a new device gives to the key is not checked
ReadOnlyKey_Unchecked(key, value, nd) ==
    IF nd THEN Passed ELSE Failed(ReadOnlyParameter(key))
\* lines 232-244, 404-429: a key that only a new device may set
ReadOnlyKey(key, value, nd) ==
    IF nd THEN verify_type_and_range(value, "'" \o key \o "'", "bool", NoRange)
    ELSE Failed(ReadOnlyParameter(key))

\* lines 231-429: the if/elif chain of one case, applied to one item
CheckKey(dt, key, value, nd) ==
    CASE dt.s = s_door_lock ->
            CASE key = "auto_lock_enabled" -> ReadOnlyKey(key, value, nd)
              [] key = "battery_level" ->
                    verify_type_and_range(value, "'battery_level'", "int",
                                          IntRange(MIN_BATTERY, MAX_BATTERY))
              [] OTHER -> Passed
      [] dt.s = s_curtain ->
            CASE key = "position" ->
                    verify_type_and_range(value, "'position'", "int",
                                          IntRange(MIN_POSITION, MAX_POSITION))
              [] OTHER -> Passed
      [] dt.s = s_air_conditioner ->
            CASE key = "temperature" ->
                    verify_type_and_range(value, "'temperature'", "int",
                                          IntRange(MIN_AC_TEMP, MAX_AC_TEMP))
              [] key = "mode" ->
                    verify_type_and_range(value, "'mode'", "str", StrSet(AC_MODES))
              [] key = "fan" ->
                    verify_type_and_range(value, "'fan'", "str", StrSet(AC_FAN_SETTINGS))
              [] key = "swing" ->
                    verify_type_and_range(value, "'swing'", "str", StrSet(AC_SWING_MODES))
              [] OTHER -> Passed
      [] dt.s = s_water_heater ->
            CASE key = "temperature" ->
                    verify_type_and_range(value, "'temperature'", "int", NoRange)
              [] key = "target_temperature" ->
                    verify_type_and_range(value, "'target_temperature'", "int",
                                          IntRange(MIN_WATER_TEMP, MAX_WATER_TEMP))
              [] key = "is_heating" ->
                    verify_type_and_range(value, "'is_heating'", "bool", NoRange)
              [] key = "timer_enabled" ->
                    verify_type_and_range(value, "'timer_enabled'", "bool", NoRange)
              [] key = "scheduled_on" ->
                    verify_type_and_range(value, "'scheduled_on'", "str", TimeFormat)
              [] key = "scheduled_off" ->
                    verify_type_and_range(value, "'scheduled_off'", "str", TimeFormat)
              [] OTHER -> Passed
      [] dt.s = s_light ->
            CASE key = "brightness" ->
                    verify_type_and_range(value, "'brightness'", "int",
                                          IntRange(MIN_BRIGHTNESS, MAX_BRIGHTNESS))
              [] key = "color" ->
                    verify_type_and_range(value, "'color'", "str", ColorFormat)
              [] key = "is_dimmable" -> ReadOnlyKey(key, value, nd)
              [] key = "dynamic_color" -> ReadOnlyKey(key, value, nd)
              [] OTHER -> Passed
      [] OTHER -> Passed

\* mutant of FinalResult: `return True, errors`
FinalResult_AlwaysTrue(errs) == Return(TRUE, errs)

\* lines 430-432
FinalResult(errs) == IF errs # <<>> THEN Return(FALSE, errs) ELSE Return(TRUE, <<>>)

-----------------------------------------------------------------------------
(* The calls the model makes: bounded sets of arguments *)

\* most items of a parameters mapping
MaxParams == 2

s_toaster == <<"t","o","a","s","t","e","r">>
s_turbo == <<"t","u","r","b","o">>
s_true == <<"t","r","u","e">>
s_blue == <<"b","l","u","e">>
s_55 == <<"5","5">>
s_2359 == <<"2","3",":","5","9">>
s_2400 == <<"2","4",":","0","0">>
s_fff == <<"#","f","f","f">>

\* device types: the known ones, an unknown string, an unhashable value
DeviceTypeChoices == {PyStr(s) : s \in DEVICE_TYPES} \cup {PyStr(s_toaster), PyList}

\* each string is in the enumeration of some types and outside that of others
StatusChoices == {PyStr(s_on), PyStr(s_locked), PyStr(s_open), PyInt(1)}

\* values tried under an integer key with the range lo..hi: the upper bound,
\* the integer after it, a decimal string, a string that is no number, None
IntChoices(hi) == {PyInt(hi), PyInt(hi + 1), PyStr(s_55), PyStr(s_blue), PyNone}

\* values tried under a parameter key: some its rule accepts, some it rejects,
\* and some that int() cannot convert
ValueChoices(key) ==
    CASE key = "brightness" -> IntChoices(MAX_BRIGHTNESS)
      [] key = "battery_level" -> IntChoices(MAX_BATTERY)
      [] key = "position" -> IntChoices(MAX_POSITION)
      [] key = "target_temperature" -> IntChoices(MAX_WATER_TEMP)
      [] key = "temperature" -> {PyInt(MAX_AC_TEMP), PyInt(MAX_AC_TEMP + 1), PyFloat(20),
                                 PyStr(s_blue), PyNone}
      [] key \in {"is_dimmable", "dynamic_color", "auto_lock_enabled"} ->
            {PyBool(TRUE), PyInt(1), PyStr(s_true)}
      [] key \in {"is_heating", "timer_enabled"} -> {PyBool(TRUE), PyInt(1)}
      [] key \in {"mode", "fan_speed", "swing"} -> {PyStr(s_off), PyStr(s_cool), PyStr(s_turbo)}
      [] key \in {"scheduled_on", "scheduled_off"} -> {PyStr(s_2359), PyStr(s_2400)}
      [] key = "color" -> {PyStr(s_fff), PyStr(s_blue), PyInt(1)}
      [] OTHER -> {PyInt(1)}

\* keys tried in parameters: the allowed ones of the type and a foreign one
KeyChoices(dt) ==
    (IF dt.t = "str" /\ dt.s \in DEVICE_TYPES THEN AllowedParameters(dt, InitialGlobals)
     ELSE {"brightness"}) \cup {"bogus"}

\* the mappings of at most n items over keys, in every insertion order
RECURSIVE Mappings(_, _)
Mappings(keys, n) ==
    IF n = 0 THEN {<<>>}
    ELSE LET shorter == Mappings(keys, n - 1)
             grown(d) == {Append(d, Item(k, v)) :
                             <<k, v>> \in UNION {{<<k2, v2>> : v2 \in ValueChoices(k2)} :
                                                   k2 \in keys \ KeySet(d)}}
         IN  shorter \cup UNION {grown(d) : d \in shorter}

\* values of the parameters field: every mapping within the bound, and a list
ParametersChoices(dt) == {PyDict(d) : d \in Mappings(KeyChoices(dt), MaxParams)} \cup {PyList}

\* values of the parameters field of a record whose fields the call never
\* reaches (it returns at line 163 or 175)
ParametersSamples ==
    {PyDict(<<>>), PyDict(<<Item("bogus", PyInt(1))>>),
     PyDict(<<Item("brightness", PyNone)>>), PyList}

\* the keys of the record, in insertion order
Shapes ==
    { <<"id", "type", "room", "name", "status", "parameters">>,
      <<"id", "type", "room", "name", "parameters", "status">>,
      <<"id", "type", "room", "name", "status", "parameters", "bogus">>,
      <<"id", "type", "room", "name", "status", "bogus">>,
      <<"status", "parameters">>,
      <<"parameters", "status">>,
      <<"room", "status", "parameters">>,
      <<"id", "parameters">>,
      <<"type", "status">>,
      <<"id", "type">>,
      <<"status">>,
      <<"parameters">>,
      <<>> }

FieldValue(k, tv, sv, pv) ==
    CASE k = "type" -> tv
      [] k = "status" -> sv
      [] k = "parameters" -> pv
      [] OTHER -> PyStr(s_on)

Record(shape, tv, sv, pv) ==
    [n \in 1..Len(shape) |-> Item(shape[n], FieldValue(shape[n], tv, sv, pv))]

Has(shape, k) == \E n \in 1..Len(shape) : shape[n] = k

\* the shape passes lines 158 and 166-175, so the loop over the fields runs
\* when the device type is known
PassesShape(nd, shape) ==
    IF nd THEN {shape[n] : n \in 1..Len(shape)} = DEVICE_PARAMETERS
    ELSE ~Has(shape, "id") /\ ~Has(shape, "type")

-----------------------------------------------------------------------------
(* The state machine of one call *)

Init ==
    /\ pc = "idle"
    /\ device_data = <<>>
    /\ new_device = FALSE
    /\ device_type = PyStr(s_empty)
    /\ errors = <<>>
    /\ field_i = 0
    /\ key_i = 0
    /\ result = NoResult
    /\ log = <<>>
    /\ globals = InitialGlobals
    /\ current = 1
    /\ saved = <<>>

\* the call, line 141 and line 156.  dt is the device type the call is about:
\* the type field of a new device, the device_type argument of an update
\* (new_device calls leave device_type at its default "").
Call ==
    /\ pc = "idle"
    /\ \E nd \in BOOLEAN, dt \in DeviceTypeChoices, shape \in Shapes :
       \E sv \in (IF Has(shape, "status") THEN StatusChoices ELSE {PyNone}),
          pv \in (IF ~Has(shape, "parameters") THEN {PyNone}
                  ELSE IF PassesShape(nd, shape) THEN ParametersChoices(dt)
                  ELSE ParametersSamples) :
          /\ device_data' = Record(shape, dt, sv, pv)
          /\ new_device' = nd
          /\ device_type' = IF nd THEN PyStr(s_empty) ELSE dt
    /\ errors' = <<>>
    /\ pc' = "shape"
    /\ UNCHANGED <<field_i, key_i, result, log, globals>>
    /\ UNCHANGED <<current, saved>>

\* lines 157-164: new_device
CheckNewDevice ==
    /\ pc = "shape"
    /\ new_device
    /\ LET errs == ShapeError(device_data, globals) IN
       IF errs # <<>>
       THEN /\ log' = log \o errs
            /\ result' = Return(FALSE, errs)
            /\ pc' = "done"
            /\ UNCHANGED device_type
       ELSE /\ device_type' = Lookup(device_data, "type")
            /\ pc' = "type"
            /\ UNCHANGED <<log, result>>
    /\ UNCHANGED <<device_data, new_device, errors, field_i, key_i, globals>>
    /\ UNCHANGED <<current, saved>>

\* lines 165-175: an update
CheckUpdate ==
    /\ pc = "shape"
    /\ ~new_device
    /\ LET errs == ReadOnlyFieldErrors(device_data) IN
       /\ log' = log \o errs
       /\ errors' = errors \o errs
       /\ IF errors' # <<>>
          THEN result' = Return(FALSE, errors') /\ pc' = "done"
          ELSE pc' = "type" /\ UNCHANGED result
    /\ UNCHANGED <<device_data, new_device, device_type, field_i, key_i, globals>>
    /\ UNCHANGED <<current, saved>>

\* lines 176-179; hashing an unhashable device_type raises TypeError
CheckDeviceType ==
    /\ pc = "type"
    /\ IF ~Hashable(device_type)
       THEN pc' = "raised" /\ UNCHANGED <<result, log, field_i>>
       ELSE IF ~KnownDeviceType(device_type, globals)
       THEN LET error == DeviceTypeError(device_type, globals.DEVICE_TYPES) IN
            /\ log' = Append(log, error)
            /\ result' = Return(FALSE, <<error>>)
            /\ pc' = "done"
            /\ UNCHANGED field_i
       ELSE /\ pc' = "fields"
            /\ field_i' = 1
            /\ UNCHANGED <<result, log>>
    /\ UNCHANGED <<device_data, new_device, device_type, errors, key_i, globals>>
    /\ UNCHANGED <<current, saved>>

\* lines 180-210: one iteration of the loop, field == 'status'
StatusField ==
    /\ pc = "fields"
    /\ field_i <= Len(device_data)
    /\ device_data[field_i].k = "status"
    /\ LET r == CheckStatus(device_type, device_data[field_i].v) IN
       /\ log' = log \o r.logged
       /\ errors' = IF r.ok THEN errors ELSE Append(errors, r.reason)
    /\ field_i' = field_i + 1
    /\ UNCHANGED <<pc, device_data, new_device, device_type, key_i, result, globals>>
    /\ UNCHANGED <<current, saved>>

\* `break` in the place of `continue`: the loop over the fields ends
AfterContinue_Break(i, data) == Len(data) + 1

\* lines 219-220, 229-230: `continue` goes on with the next field of the record
AfterContinue(i, data) == i + 1

\* lines 211-230: one iteration of the loop, field == 'parameters', up to the
\* per-key loop
ParametersField ==
    /\ pc = "fields"
    /\ field_i <= Len(device_data)
    /\ device_data[field_i].k = "parameters"
    /\ LET value == device_data[field_i].v
           r == verify_type_and_range(value, "'parameters'", "dict", NoRange)
           left_over == LeftOverParameters(device_type, value.d, globals)
           error == DisallowedError(CaseLabel(device_type), left_over,
                                    AllowedParameters(device_type, globals))
       IN  IF ~r.ok
           THEN /\ log' = log \o r.logged
                /\ errors' = Append(errors, r.reason)
                /\ field_i' = AfterContinue(field_i, device_data)
                /\ UNCHANGED <<pc, key_i>>
           ELSE IF HasCase(device_type) /\ left_over # {}
           THEN /\ log' = Append(log, error)
                /\ errors' = Append(errors, error)
                /\ field_i' = AfterContinue(field_i, device_data)
                /\ UNCHANGED <<pc, key_i>>
           ELSE /\ pc' = "keys"
                /\ key_i' = 1
                /\ UNCHANGED <<log, errors, field_i>>
    /\ globals' = LET value == device_data[field_i].v IN
                  IF value.t = "dict"
                  THEN GlobalsAfterLeftOver(device_type, value.d, globals)
                  ELSE globals
    /\ UNCHANGED <<device_data, new_device, device_type, result>>
    /\ UNCHANGED <<current, saved>>

\* a field that is neither 'status' nor 'parameters' is refused
OtherFieldErrors_Refused(field, value) ==
    <<Msg("field", "'" \o field \o "'", value, "", "", {}, {}, {}, 0, 0)>>

\* lines 180-211: a field that is neither 'status' nor 'parameters' enters
\* neither `if` of the loop body: no error, whatever its name and value
OtherFieldErrors(field, value) == <<>>

\* line 180: an iteration for any other field
OtherField ==
    /\ pc = "fields"
    /\ field_i <= Len(device_data)
    /\ device_data[field_i].k \notin {"status", "parameters"}
    /\ LET errs == OtherFieldErrors(device_data[field_i].k, device_data[field_i].v) IN
       /\ log' = log \o errs
       /\ errors' = errors \o errs
    /\ field_i' = field_i + 1
    /\ UNCHANGED <<pc, device_data, new_device, device_type, key_i, result, globals>>
    /\ UNCHANGED <<current, saved>>

\* lines 231-429: one iteration of the loop over parameters.items(); a
\* TypeError of int() leaves validate_device_data
ParameterKey ==
    /\ pc = "keys"
    /\ LET items == device_data[field_i].v.d IN
       /\ key_i <= Len(items)
       /\ LET r == CheckKey(device_type, items[key_i].k, items[key_i].v, new_device) IN
          IF r.raised
          THEN pc' = "raised" /\ UNCHANGED <<log, errors, key_i>>
          ELSE /\ log' = log \o r.logged
               /\ errors' = IF r.ok THEN errors ELSE Append(errors, r.reason)
               /\ key_i' = key_i + 1
               /\ UNCHANGED pc
    /\ UNCHANGED <<device_data, new_device, device_type, field_i, result, globals>>
    /\ UNCHANGED <<current, saved>>

\* the loop over parameters.items() is exhausted: next field
ParametersDone ==
    /\ pc = "keys"
    /\ key_i > Len(device_data[field_i].v.d)
    /\ pc' = "fields"
    /\ field_i' = field_i + 1
    /\ UNCHANGED <<device_data, new_device, device_type, errors, key_i, result, log,
                   globals>>
    /\ UNCHANGED <<current, saved>>

\* lines 430-432: the loop over the fields is exhausted
Finish ==
    /\ pc = "fields"
    /\ field_i > Len(device_data)
    /\ result' = FinalResult(errors)
    /\ pc' = "done"
    /\ UNCHANGED <<device_data, new_device, device_type, errors, field_i, key_i, log,
                   globals>>
    /\ UNCHANGED <<current, saved>>

Next ==
    \/ Call
    \/ CheckNewDevice
    \/ CheckUpdate
    \/ CheckDeviceType
    \/ StatusField
    \/ ParametersField
    \/ OtherField
    \/ ParameterKey
    \/ ParametersDone
    \/ Finish

Spec == Init /\ [][Next]_vars

-----------------------------------------------------------------------------
(* What the claims speak of *)

Terminated == pc \in {"done", "raised"}

\* the device type the call is about: the type field of a new device (when
\* the record has one), the device_type argument of an update
HasSubjectType == ~new_device \/ HasKey(device_data, "type")
SubjectType == IF new_device THEN Lookup(device_data, "type") ELSE device_type
IsKnown(dt) == dt.t = "str" /\ dt.s \in DEVICE_TYPES

\* the record passes step 1
ExactFields == KeySet(device_data) = DEVICE_PARAMETERS
NoReadOnlyField == ~HasKey(device_data, "id") /\ ~HasKey(device_data, "type")
ShapeOk == IF new_device THEN ExactFields ELSE NoReadOnlyField

HasStatus == HasKey(device_data, "status")
Status == Lookup(device_data, "status")
HasParameters == HasKey(device_data, "parameters")
Parameters == Lookup(device_data, "parameters")

\* the rule tables of the specification: per type, the allowed keys with the
\* expected type, the constraint and the read-only mark of each
Rule(cls, range, ro) == [cls |-> cls, range |-> range, ro |-> ro]
RuleKeys(t) ==
    CASE t = s_door_lock -> {"auto_lock_enabled", "battery_level"}
      [] t = s_curtain -> {"position"}
      [] t = s_air_conditioner -> {"temperature", "mode", "fan_speed", "swing"}
      [] t = s_water_heater -> {"temperature", "target_temperature", "is_heating",
                                "timer_enabled", "scheduled_on", "scheduled_off"}
      [] t = s_light -> {"brightness", "color", "is_dimmable", "dynamic_color"}
RuleOf(t, key) ==
    CASE key = "auto_lock_enabled" -> Rule("bool", NoRange, TRUE)
      [] key = "battery_level" -> Rule("int", IntRange(0, 100), FALSE)
      [] key = "position" -> Rule("int", IntRange(0, 100), FALSE)
      [] key = "temperature" /\ t = s_air_conditioner -> Rule("int", IntRange(16, 30), FALSE)
      [] key = "mode" -> Rule("str", StrSet({s_cool, s_heat, s_fan}), FALSE)
      [] key = "fan_speed" -> Rule("str", StrSet({s_off, s_low, s_medium, s_high}), FALSE)
      [] key = "swing" -> Rule("str", StrSet({s_off, s_on, s_auto}), FALSE)
      [] key = "temperature" /\ t = s_water_heater -> Rule("int", NoRange, FALSE)
      [] key = "target_temperature" -> Rule("int", IntRange(49, 60), FALSE)
      [] key \in {"is_heating", "timer_enabled"} -> Rule("bool", NoRange, FALSE)
      [] key \in {"scheduled_on", "scheduled_off"} -> Rule("str", TimeFormat, FALSE)
      [] key = "brightness" -> Rule("int", IntRange(0, 100), FALSE)
      [] key = "color" -> Rule("str", ColorFormat, FALSE)
      [] key \in {"is_dimmable", "dynamic_color"} -> Rule("bool", NoRange, TRUE)
RuleStatus(t) ==
    CASE t = s_door_lock -> {s_locked, s_unlocked}
      [] t = s_curtain -> {s_open, s_closed}
      [] OTHER -> {s_on, s_off}

InRange(n, range) == range.kind = "None" \/ (range.lo <= n /\ n <= range.hi)
FitsConstraint(cs, range) ==
    CASE range.kind = "set" -> cs \in range.set
      [] range.kind = "time" -> TIME_REGEX(cs)
      [] range.kind = "color" -> COLOR_REGEX(cs)
      [] OTHER -> TRUE

\* the value has the registered type and meets the constraint
Satisfies(value, rule) ==
    CASE rule.cls = "int" -> value.t = "int" /\ InRange(value.i, rule.range)
      [] rule.cls = "bool" -> value.t = "bool"
      [] rule.cls = "str" -> value.t = "str" /\ FitsConstraint(value.s, rule.range)

\* the Primitive Checker of the specification accepts the value: an integer
\* rule coerces first
Accepts(value, rule) ==
    IF rule.cls = "int"
    THEN PyIntOf(value).exc = "None" /\ InRange(PyIntOf(value).i, rule.range)
    ELSE Satisfies(value, rule)

StatusValid(t) == Status.t = "str" /\ Status.s \in RuleStatus(t)

Count(seq, P(_)) == Cardinality({n \in 1..Len(seq) : P(seq[n])})
IsStatusError(e) == e.name = "'status'" /\ e.kind \in {"enum", "type"}
\* a type or range error of the key, as verify_type_and_range names it
IsTypeOrRangeError(e, key) ==
    e.kind \in {"type", "range", "numeric"} /\ e.name = "'" \o key \o "'"

-----------------------------------------------------------------------------
(* Claims *)

\* C1: every call that returns, on any of its return paths, returns a success
\* flag that is true exactly when the returned error list is empty.
C1_SuccessIffNoErrors == result.returned => (result.ok <=> result.errors = <<>>)

\* a call that went through the per-field validation and returns two errors
C1_Witness ==
    /\ pc = "done"
    /\ field_i > Len(device_data)
    /\ ~result.ok
    /\ Len(result.errors) = 2

\* C2: no call leaves validate_device_data with an exception.
C2_NeverRaises == pc # "raised"

\* C3, as claimed: whenever the device type of the call is not a known one,
\* the call returns false with exactly one error, the 'Incorrect device
\* type' message, whatever else is wrong with the record.
C3_Original ==
    (pc = "done" /\ HasSubjectType /\ ~IsKnown(SubjectType))
        => /\ ~result.ok
           /\ Len(result.errors) = 1
           /\ result.errors[1].kind = "device_type"

\* C3, amended: when the record passes the shape check and the device type is
\* a hashable value that is not a known type, the call returns false with
\* exactly the 'Incorrect device type' message, whatever status and
\* parameters hold; when the shape check fails, no result holds that message.
C3_UnknownTypeAfterShape ==
    /\ (Terminated /\ ShapeOk /\ ~IsKnown(SubjectType) /\ Hashable(SubjectType))
          => /\ pc = "done"
             /\ result = Return(FALSE, <<DeviceTypeError(SubjectType, DEVICE_TYPES)>>)
    /\ (pc = "done" /\ ~ShapeOk)
          => \A n \in 1..Len(result.errors) : result.errors[n].kind # "device_type"

\* an update for an unknown type whose status and parameters are wrong too
C3_Witness ==
    /\ pc = "done"
    /\ ~new_device
    /\ ShapeOk
    /\ device_type = PyStr(s_toaster)
    /\ HasStatus /\ Status.t # "str"
    /\ HasParameters /\ Parameters.t = "list"
    /\ Len(result.errors) = 1

\* C4: a new device whose key set is not DEVICE_PARAMETERS gets false and
\* exactly one error, which names the extra and the missing keys; nothing
\* else is checked.
C4_KeySetMismatch ==
    (Terminated /\ new_device /\ ~ExactFields)
        => /\ pc = "done"
           /\ result = Return(FALSE,
                  <<FieldsError(KeySet(device_data) \ DEVICE_PARAMETERS,
                                DEVICE_PARAMETERS \ KeySet(device_data))>>)

\* a new device with an extra and a missing key, an unknown type and a
\* status of the wrong type
C4_Witness ==
    /\ pc = "done"
    /\ new_device
    /\ KeySet(device_data) \ DEVICE_PARAMETERS # {}
    /\ DEVICE_PARAMETERS \ KeySet(device_data) # {}
    /\ HasKey(device_data, "type") /\ ~IsKnown(Lookup(device_data, "type"))
    /\ HasStatus /\ Status.t # "str"
    /\ Len(result.errors) = 1

\* C5: an update whose record holds 'id' or 'type' returns false with one
\* read-only error for each of the two that is present, and nothing else.
C5_ReadOnlyFields ==
    (Terminated /\ ~new_device /\ ~NoReadOnlyField)
        => /\ pc = "done"
           /\ ~result.ok
           /\ Len(result.errors) = Cardinality(KeySet(device_data) \cap {"id", "type"})
           /\ \A k \in {"id", "type"} :
                 HasKey(device_data, k)
                     <=> \E n \in 1..Len(result.errors) :
                            result.errors[n] = ReadOnlyField(k)

\* an update with both, for an unknown type, with parameters that are no mapping
C5_Witness ==
    /\ pc = "done"
    /\ ~new_device
    /\ HasKey(device_data, "id") /\ HasKey(device_data, "type")
    /\ ~IsKnown(device_type)
    /\ HasParameters /\ Parameters.t = "list"
    /\ Len(result.errors) = 2

\* every item of the parameters mapping has an allowed key and a value of the
\* registered type that meets the constraint
ParametersSatisfy(t, withReadOnly) ==
    /\ Parameters.t = "dict"
    /\ \A n \in 1..Len(Parameters.d) :
          /\ Parameters.d[n].k \in RuleKeys(t)
          /\ withReadOnly \/ ~RuleOf(t, Parameters.d[n].k).ro
          /\ Satisfies(Parameters.d[n].v, RuleOf(t, Parameters.d[n].k))

\* C6: a new device with exactly the fields of DEVICE_PARAMETERS, a known
\* type, a status of the type's enumeration and parameters that all satisfy
\* their rules (the read-only ones as booleans) yields (true, []).
C6_ValidNewDevice ==
    (/\ Terminated
     /\ new_device
     /\ ExactFields
     /\ IsKnown(SubjectType)
     /\ StatusValid(SubjectType.s)
     /\ ParametersSatisfy(SubjectType.s, TRUE))
        => (pc = "done" /\ result = Return(TRUE, <<>>))

\* a valid new device that sets a read-only parameter and another one
C6_Witness ==
    /\ pc = "done"
    /\ new_device
    /\ result = Return(TRUE, <<>>)
    /\ Len(Parameters.d) = 2
    /\ \E n \in 1..2 : RuleOf(SubjectType.s, Parameters.d[n].k).ro

\* C7: an update for a known type, without 'id' and 'type', whose status, if
\* present, is of the type's enumeration and whose parameters, if present,
\* hold any subset of the keys that are not read-only, each satisfying its
\* rule, yields (true, []).
C7_ValidUpdate ==
    (/\ Terminated
     /\ ~new_device
     /\ NoReadOnlyField
     /\ IsKnown(device_type)
     /\ HasStatus => StatusValid(device_type.s)
     /\ HasParameters => ParametersSatisfy(device_type.s, FALSE))
        => (pc = "done" /\ result = Return(TRUE, <<>>))

\* a valid update without status whose parameters mapping is empty
C7_Witness ==
    /\ pc = "done"
    /\ ~new_device
    /\ result = Return(TRUE, <<>>)
    /\ ~HasStatus
    /\ HasParameters /\ Parameters = PyDict(<<>>)

\* the read-only keys among the items 1..n of the parameters of an update
ReadOnlyKeysUpTo(n) ==
    {k \in {Parameters.d[m].k : m \in 1..n} :
        k \in RuleKeys(device_type.s) /\ RuleOf(device_type.s, k).ro}

\* an update that reaches the parameters of a known type, a mapping
UpdateWithParameters ==
    /\ pc # "idle"
    /\ ~new_device
    /\ NoReadOnlyField
    /\ IsKnown(device_type)
    /\ HasParameters
    /\ Parameters.t = "dict"

\* C8, as claimed (for the updates that reach the parameters check): every
\* read-only key of parameters gets its read-only error in the result, and
\* no type or range error, whatever the other keys of parameters are.
C8_Original ==
    (pc = "done" /\ UpdateWithParameters)
        => \A k \in ReadOnlyKeysUpTo(Len(Parameters.d)) :
              /\ \E n \in 1..Len(result.errors) : result.errors[n] = ReadOnlyParameter(k)
              /\ \A n \in 1..Len(result.errors) : ~IsTypeOrRangeError(result.errors[n], k)

\* the items of parameters the per-key loop has gone through
ItemsDone ==
    CASE pc \in {"keys", "raised"} -> key_i - 1
      [] pc = "done" -> Len(Parameters.d)
      [] pc = "fields" /\ \E n \in 1..(field_i - 1) : device_data[n].k = "parameters" ->
            Len(Parameters.d)
      [] OTHER -> 0

\* C8, amended: in an update that reaches the parameters check, when every key
\* of parameters is allowed, each read-only key adds exactly one read-only
\* error as soon as the per-key loop reaches it, whatever its value, and never
\* a type or range error; every result the call returns holds these errors.
C8_ReadOnlyParameters ==
    (UpdateWithParameters /\ KeySet(Parameters.d) \subseteq RuleKeys(device_type.s))
        => /\ \A k \in ReadOnlyKeysUpTo(ItemsDone) :
                 Count(errors, LAMBDA e : e = ReadOnlyParameter(k)) = 1
           /\ \A k \in ReadOnlyKeysUpTo(Len(Parameters.d)) :
                 \A n \in 1..Len(errors) : ~IsTypeOrRangeError(errors[n], k)
           /\ pc = "done" => result.errors = errors

\* an update returns the read-only error of a key whose value is no boolean,
\* next to the error of another key
C8_Witness ==
    /\ pc = "done"
    /\ UpdateWithParameters
    /\ \E n \in 1..Len(Parameters.d) :
          /\ Parameters.d[n].k \in ReadOnlyKeysUpTo(Len(Parameters.d))
          /\ Parameters.d[n].v.t # "bool"
    /\ Len(result.errors) = 2
    /\ \E n \in 1..2 : result.errors[n].kind = "range"

\* the keys of parameters outside the allowed set of the rule table
Disallowed(t) == KeySet(Parameters.d) \ RuleKeys(t)

\* the result holds the one combined error and, besides it, at most the error
\* of the status field
OnlyDisallowedError(t) ==
    LET error == DisallowedError(CaseLabel(PyStr(t)), Disallowed(t), RuleKeys(t)) IN
    /\ Count(result.errors, LAMBDA e : e = error) = 1
    /\ \A n \in 1..Len(result.errors) :
          result.errors[n] = error \/ IsStatusError(result.errors[n])

\* C9, as claimed: for a known type, in either mode, a parameters mapping with
\* a key outside the allowed set gives a result with exactly one 'Disallowed
\* parameters' error and no error of a single key.
C9_Original ==
    (/\ pc = "done"
     /\ HasSubjectType
     /\ IsKnown(SubjectType)
     /\ HasParameters
     /\ Parameters.t = "dict"
     /\ Disallowed(SubjectType.s) # {})
        => OnlyDisallowedError(SubjectType.s)

\* C9, amended: the same, for the records that pass the shape check (a new
\* device with exactly the fields of DEVICE_PARAMETERS, an update without
\* 'id' and 'type').
C9_DisallowedParameters ==
    (/\ Terminated
     /\ ShapeOk
     /\ IsKnown(SubjectType)
     /\ HasParameters
     /\ Parameters.t = "dict"
     /\ Disallowed(SubjectType.s) # {})
        => (pc = "done" /\ ~result.ok /\ OnlyDisallowedError(SubjectType.s))

\* parameters with a disallowed key and an allowed key whose value int()
\* cannot convert, in a record whose status is wrong too
C9_Witness ==
    /\ pc = "done"
    /\ ShapeOk
    /\ IsKnown(SubjectType)
    /\ HasStatus /\ ~StatusValid(SubjectType.s)
    /\ HasParameters /\ Parameters.t = "dict"
    /\ Disallowed(SubjectType.s) # {}
    /\ \E n \in 1..Len(Parameters.d) :
          /\ Parameters.d[n].k \in RuleKeys(SubjectType.s)
          /\ Parameters.d[n].v = PyNone
    /\ Len(result.errors) = 2

\* the checked items of the record that fail: the status, and each item of
\* parameters that is read-only in an update or that the Primitive Checker of
\* its rule rejects
FailingItems(t) ==
    (IF HasStatus /\ ~StatusValid(t) THEN 1 ELSE 0)
    + (IF HasParameters
       THEN Cardinality({n \in 1..Len(Parameters.d) :
               \/ RuleOf(t, Parameters.d[n].k).ro /\ ~new_device
               \/ ~Accepts(Parameters.d[n].v, RuleOf(t, Parameters.d[n].k))})
       ELSE 0)

\* C10: without a structural error, the call returns one error for each
\* failing item and none for the others.
C10_OneErrorPerFailingItem ==
    (/\ pc = "done"
     /\ ShapeOk
     /\ IsKnown(SubjectType)
     /\ HasParameters =>
           (Parameters.t = "dict" /\ KeySet(Parameters.d) \subseteq RuleKeys(SubjectType.s)))
        => Len(result.errors) = FailingItems(SubjectType.s)

-----------------------------------------------------------------------------
(* Calls that probe one parameter: an update whose record holds only the
   parameters mapping, the mapping only the probed key *)

ProbeCall(dt, key, value) ==
    /\ device_data' = <<Item("parameters", PyDict(<<Item(key, value)>>))>>
    /\ new_device' = FALSE
    /\ device_type' = PyStr(dt)
    /\ errors' = <<>>
    /\ pc' = "shape"
    /\ UNCHANGED <<field_i, key_i, result, log, globals>>
    /\ UNCHANGED <<current, saved>>

\* what a probing call runs of validate_device_data
ProbeSteps ==
    \/ CheckUpdate
    \/ CheckDeviceType
    \/ ParametersField
    \/ ParameterKey
    \/ ParametersDone
    \/ Finish

ProbeKey == Parameters.d[1].k
ProbeValue == Parameters.d[1].v
ProbeName == "'" \o ProbeKey \o "'"

\* how far below the minimum and above the maximum the probed integers go
IntMargin == 2

\* the integer fields with a range, by device type
RangeFields ==
    { <<s_light, "brightness">>, <<s_door_lock, "battery_level">>,
      <<s_curtain, "position">>, <<s_air_conditioner, "temperature">>,
      <<s_water_heater, "target_temperature">> }

CallRange ==
    /\ pc = "idle"
    /\ \E f \in RangeFields :
       \E v \in (RuleOf(f[1], f[2]).range.lo - IntMargin) ..
                (RuleOf(f[1], f[2]).range.hi + IntMargin) :
           ProbeCall(f[1], f[2], PyInt(v))

NextRange == CallRange \/ ProbeSteps

SpecRange == Init /\ [][NextRange]_vars

\* C11: for each integer field with a range (min, max), every integer v with
\* min <= v <= max passes verify_type_and_range and the call through
\* validate_device_data succeeds with no error; every integer outside, min - 1
\* and max + 1 among them, fails with exactly the message
\* "must be between <min> and <max>, got <v>".
C11_IntegerRange ==
    pc # "idle" =>
        LET range == RuleOf(device_type.s, ProbeKey).range
            v == ProbeValue.i
            r == verify_type_and_range(ProbeValue, ProbeName, "int", range)
            error == RangeError(ProbeName, range.lo, range.hi, PyInt(v))
        IN  /\ ~r.raised
            /\ r.ok <=> (range.lo <= v /\ v <= range.hi)
            /\ ~r.ok => r.reason = error
            /\ pc # "raised"
            /\ pc = "done" =>
                   result = IF range.lo <= v /\ v <= range.hi
                            THEN Return(TRUE, <<>>)
                            ELSE Return(FALSE, <<error>>)

\* a call returns for the integer just above the maximum of a field
C11_Witness ==
    /\ pc = "done"
    /\ ProbeKey = "target_temperature"
    /\ ProbeValue = PyInt(MAX_WATER_TEMP + 1)
    /\ Len(result.errors) = 1
    /\ result.errors[1].kind = "range"

-----------------------------------------------------------------------------
IsStatusEnumError(e) == e.kind = "enum" /\ e.name = "'status'"

\* C12: for a record that passes the shape check and a known device type, a
\* string status is checked against the enumeration of that type (locked,
\* unlocked for a door lock; open, closed for a curtain; on, off for the
\* others): a string outside it yields exactly one "is not a valid value for
\* 'status'" error, naming that enumeration, and a member yields none.
C12_StatusEnumeration ==
    (pc = "done" /\ ShapeOk /\ IsKnown(SubjectType) /\ HasStatus /\ Status.t = "str") =>
        LET allowed == RuleStatus(SubjectType.s)
            found == {n \in 1..Len(result.errors) : IsStatusEnumError(result.errors[n])}
        IN  IF Status.s \in allowed
            THEN found = {}
            ELSE /\ Cardinality(found) = 1
                 /\ \A n \in found :
                        result.errors[n] = EnumError("'status'", Status, allowed)

\* a door lock whose status is 'on' gets the status error, and only one
C12_Witness ==
    /\ pc = "done"
    /\ ShapeOk
    /\ SubjectType = PyStr(s_door_lock)
    /\ HasStatus
    /\ Status = PyStr(s_on)
    /\ Count(result.errors, IsStatusEnumError) = 1

-----------------------------------------------------------------------------
IsFormatError(e) == e.kind \in {"time", "color"}

\* C13: every failure that is reported is also logged: when a call returns,
\* the log holds, for each error message of the result, one record of error
\* severity with the same text, in the same order, and nothing else; the
\* failures of the time and color format checks included.
C13_EveryErrorLogged ==
    pc = "done" => log = result.errors

-----------------------------------------------------------------------------
IsFanSpeedError(e) ==
    e.kind \in {"enum", "type"} /\ e.name \in {"'fan_speed'", "'fan'"}

\* C14: the fan_speed of an air conditioner is checked like the other
\* enumerated parameters: when a call returns for an air conditioner whose
\* parameters hold only allowed keys, fan_speed among them, the result holds
\* an error about fan_speed exactly when its value is not a string of
\* AC_FAN_SETTINGS (off, low, medium, high).
C14_FanSpeedChecked ==
    (/\ pc = "done"
     /\ ShapeOk
     /\ SubjectType = PyStr(s_air_conditioner)
     /\ HasParameters
     /\ Parameters.t = "dict"
     /\ KeySet(Parameters.d) \subseteq RuleKeys(s_air_conditioner)
     /\ HasKey(Parameters.d, "fan_speed"))
        => (Count(result.errors, IsFanSpeedError) = 1
              <=> ~Satisfies(Lookup(Parameters.d, "fan_speed"),
                             RuleOf(s_air_conditioner, "fan_speed")))

-----------------------------------------------------------------------------
(* Time strings: an hour part, a separator, a minute part, an optional
   seconds part and what follows them *)

TimeHours ==
    { <<"0","0">>, <<"0","9">>, <<"1","4">>, <<"1","9">>, <<"2","3">>,
      <<"2","4">>, <<"2","5">>, <<"9">>, <<"1","a">> }
TimeSeparators == { <<":">>, <<>>, <<"-">> }
TimeMinutes == { <<"0","0">>, <<"3","0">>, <<"5","9">>, <<"6","0">>, <<"5">> }
TimeSeconds ==
    { <<>>, <<":","0","0">>, <<":","5","9">>, <<":","6","0">>, <<":","0">>, <<":">> }
TimeEndings == { <<>>, <<"\n">>, <<" ">>, <<"\n","\n">>, <<"Z">> }

TimeStrings ==
    { h \o p \o m \o s \o e : h \in TimeHours, p \in TimeSeparators,
                              m \in TimeMinutes, s \in TimeSeconds, e \in TimeEndings }

CallTime ==
    /\ pc = "idle"
    /\ \E key \in {"scheduled_on", "scheduled_off"}, cs \in TimeStrings :
           ProbeCall(s_water_heater, key, PyStr(cs))

NextTime == CallTime \/ ProbeSteps

SpecTime == Init /\ [][NextTime]_vars

\* the two characters at n are decimal digits; the number they write
TwoDigits(cs, n) == cs[n] \in Digits /\ cs[n + 1] \in Digits
TwoDigitValue(cs, n) == 10 * DigitValue(cs[n]) + DigitValue(cs[n + 1])

\* HH:MM or HH:MM:SS with HH in 00..23, MM and SS in 00..59, and nothing else
IsClockTime(cs) ==
    /\ Len(cs) \in {5, 8}
    /\ TwoDigits(cs, 1) /\ TwoDigitValue(cs, 1) <= 23
    /\ cs[3] = ":"
    /\ TwoDigits(cs, 4) /\ TwoDigitValue(cs, 4) <= 59
    /\ Len(cs) = 8 =>
           (cs[6] = ":" /\ TwoDigits(cs, 7) /\ TwoDigitValue(cs, 7) <= 59)

\* C15: the time check accepts a string exactly when it is a two-digit hour
\* 00-23, a colon, a two-digit minute 00-59 and optionally a colon and a
\* two-digit second 00-59; every other string is rejected with "is not a
\* valid ISO format time string", by verify_type_and_range and by the call of
\* validate_device_data that holds it as scheduled_on or scheduled_off.
C15_TimeExactly ==
    pc # "idle" =>
        LET r == verify_type_and_range(ProbeValue, ProbeName, "str", TimeFormat) IN
        /\ r.ok <=> IsClockTime(ProbeValue.s)
        /\ ~r.ok => r.reason = TimeError(ProbeValue)
        /\ pc = "done" =>
               result = IF IsClockTime(ProbeValue.s)
                        THEN Return(TRUE, <<>>)
                        ELSE Return(FALSE, <<TimeError(ProbeValue)>>)

-----------------------------------------------------------------------------
(* Color strings: what precedes the digits, a run of digits and what follows *)

\* most digits of a color string
MaxHexLen == 7

HexSample == {"0", "a", "F"}
HexRuns == UNION { [1..n -> HexSample] : n \in 0..MaxHexLen }
\* a run of 3 or 6 digits with one character that is no hexadecimal digit
SpoiledRuns ==
    UNION { { [b EXCEPT ![k] = "g"] : k \in 1..Len(b) } :
                b \in {r \in HexRuns : Len(r) \in {3, 6}} }
ColorPrefixes == { <<"#">>, <<>>, <<"0">> }
ColorEndings == { <<>>, <<"\n">> }

ColorStrings ==
    { p \o b \o e : p \in ColorPrefixes, b \in HexRuns \cup SpoiledRuns,
                    e \in ColorEndings }

CallColor ==
    /\ pc = "idle"
    /\ \E cs \in ColorStrings : ProbeCall(s_light, "color", PyStr(cs))

NextColor == CallColor \/ ProbeSteps

SpecColor == Init /\ [][NextColor]_vars

\* '#' and then exactly 3 or 6 hexadecimal digits of either case
IsHexColor(cs) ==
    /\ Len(cs) \in {4, 7}
    /\ cs[1] = "#"
    /\ \A n \in 2..Len(cs) :
           cs[n] \in Digits \cup {"a","b","c","d","e","f"} \cup {"A","B","C","D","E","F"}

\* C16: the color check accepts every string made of '#' and exactly 3 or 6
\* hexadecimal digits of either case, and rejects every string that lacks the
\* '#', holds a character that is no hexadecimal digit, or has a digit count
\* other than 3 or 6, with "is not a valid hex color string"; so does the
\* call of validate_device_data that holds the string as the color of a light.
C16_ColorExactly ==
    pc # "idle" =>
        LET r == verify_type_and_range(ProbeValue, ProbeName, "str", ColorFormat) IN
        /\ r.ok <=> IsHexColor(ProbeValue.s)
        /\ ~r.ok => r.reason = ColorError(ProbeValue)
        /\ pc = "done" =>
               result = IF IsHexColor(ProbeValue.s)
                        THEN Return(TRUE, <<>>)
                        ELSE Return(FALSE, <<ColorError(ProbeValue)>>)

-----------------------------------------------------------------------------
\* C17: a call changes neither its inputs nor the shared configuration: no
\* step changes the module's sets (DEVICE_TYPES, DEVICE_PARAMETERS, the
\* per-type sets), which so stay as they were at import, and from the call on
\* every step leaves the record, with its nested parameters mapping, and the
\* new_device argument as they were passed; in particular computing the
\* disallowed keys does not shrink an allowed-parameter set.
C17_NoMutation ==
    [][/\ globals' = globals
       /\ pc # "idle" => (device_data' = device_data /\ new_device' = new_device)]_vars

\* a call has computed the disallowed keys of a mapping that holds an allowed
\* key and a disallowed one, and has returned
C17_Witness ==
    /\ pc = "done"
    /\ ShapeOk
    /\ IsKnown(SubjectType)
    /\ HasParameters
    /\ Parameters.t = "dict"
    /\ KeySet(Parameters.d) \cap AllowedParameters(SubjectType, InitialGlobals) # {}
    /\ KeySet(Parameters.d) \ AllowedParameters(SubjectType, InitialGlobals) # {}
    /\ \E n \in 1..Len(result.errors) : result.errors[n].kind = "disallowed"
    /\ globals = InitialGlobals

-----------------------------------------------------------------------------
\* the error the status field gets, and the structural error of parameters
StatusErrorOf(t) ==
    IF Status.t = "str" THEN EnumError("'status'", Status, RuleStatus(t))
    ELSE TypeMismatch("'status'", "str", Status)
StructuralErrorOf(t) ==
    IF Parameters.t # "dict" THEN TypeMismatch("'parameters'", "dict", Parameters)
    ELSE DisallowedError(CaseLabel(PyStr(t)), Disallowed(t), RuleKeys(t))
StatusBeforeParameters ==
    \E m, n \in 1..Len(device_data) :
        m < n /\ device_data[m].k = "status" /\ device_data[n].k = "parameters"

\* C18: a structural failure of parameters (not a mapping, or a disallowed
\* key) ends only the checks of parameters: for a record that passes the shape
\* check and a known type, an invalid status together with such parameters
\* makes the call return exactly the two errors, the status error and the
\* structural error, in the order of the two fields in the record, whichever
\* comes first; no parameter is checked on its own and nothing is raised.
C18_StatusStillChecked ==
    (/\ Terminated
     /\ ShapeOk
     /\ IsKnown(SubjectType)
     /\ HasStatus
     /\ ~StatusValid(SubjectType.s)
     /\ HasParameters
     /\ (Parameters.t # "dict" \/ Disallowed(SubjectType.s) # {}))
        => /\ pc = "done"
           /\ result = Return(FALSE,
                  IF StatusBeforeParameters
                  THEN <<StatusErrorOf(SubjectType.s), StructuralErrorOf(SubjectType.s)>>
                  ELSE <<StructuralErrorOf(SubjectType.s), StatusErrorOf(SubjectType.s)>>)

\* parameters with a disallowed key come before an invalid status, and the
\* call returns both errors
C18_Witness ==
    /\ pc = "done"
    /\ ShapeOk
    /\ IsKnown(SubjectType)
    /\ HasStatus
    /\ HasParameters
    /\ ~StatusBeforeParameters
    /\ Parameters.t = "dict"
    /\ Disallowed(SubjectType.s) # {}
    /\ result.errors = <<StructuralErrorOf(SubjectType.s), StatusErrorOf(SubjectType.s)>>
    /\ result.errors[2].kind = "enum"

-----------------------------------------------------------------------------
IsReadOnlyError(e) == e.kind \in {"readonly_parameter", "readonly_field"}
ErrorsNamed(seq, key) == {n \in 1..Len(seq) : seq[n].name = "'" \o key \o "'"}

\* a new device whose record passes the shape check, of a known type, with a
\* parameters mapping of allowed keys
NewDeviceWithParameters ==
    /\ pc # "idle"
    /\ new_device
    /\ ExactFields
    /\ IsKnown(SubjectType)
    /\ Parameters.t = "dict"
    /\ KeySet(Parameters.d) \subseteq RuleKeys(SubjectType.s)

\* C19: for a new device the read-only parameters (auto_lock_enabled,
\* is_dimmable, dynamic_color) are checked as booleans: once the per-key loop
\* has gone through the key, an exact boolean value has no error and a value
\* of any other type has exactly the type-mismatch error "must be a bool";
\* no "Cannot update read-only parameter" error is ever produced when
\* new_device is true, and a returned result holds the errors so collected.
C19_NewDeviceReadOnly ==
    /\ new_device =>
          /\ \A n \in 1..Len(errors) : ~IsReadOnlyError(errors[n])
          /\ \A n \in 1..Len(result.errors) : ~IsReadOnlyError(result.errors[n])
          /\ \A n \in 1..Len(log) : ~IsReadOnlyError(log[n])
    /\ NewDeviceWithParameters =>
          /\ \A n \in 1..ItemsDone :
                LET key == Parameters.d[n].k
                    value == Parameters.d[n].v
                IN  RuleOf(SubjectType.s, key).ro =>
                       IF value.t = "bool"
                       THEN ErrorsNamed(errors, key) = {}
                       ELSE /\ Cardinality(ErrorsNamed(errors, key)) = 1
                            /\ \A m \in ErrorsNamed(errors, key) :
                                   errors[m] = TypeMismatch("'" \o key \o "'", "bool", value)
          /\ pc = "done" => result.errors = errors

\* a new light whose is_dimmable is the integer 1 and whose dynamic_color is
\* the string 'true' is returned the two type-mismatch errors, and only those
C19_Witness ==
    /\ pc = "done"
    /\ NewDeviceWithParameters
    /\ SubjectType = PyStr(s_light)
    /\ Parameters.d = <<Item("is_dimmable", PyInt(1)),
                        Item("dynamic_color", PyStr(s_true))>>
    /\ HasStatus /\ StatusValid(s_light)
    /\ result.errors = <<TypeMismatch("'is_dimmable'", "bool", PyInt(1)),
                         TypeMismatch("'dynamic_color'", "bool", PyStr(s_true))>>

-----------------------------------------------------------------------------
(* What an update is said to depend on: the device type, whether 'id' and
   'type' are present, and the status and parameters fields with their
   values, in the order the record holds them *)

RelevantFields(data) ==
    SelectSeq(data, LAMBDA item : item.k \in {"status", "parameters"})

NoOutcome == [raised |-> TRUE, result |-> NoResult]
Outcome(ok, errs) == [raised |-> FALSE, result |-> Return(ok, errs)]
Collected(errs) == [raised |-> FALSE, errors |-> errs]
Escaped == [raised |-> TRUE, errors |-> <<>>]

\* the errors of the items of a parameters mapping, unless a check raises
RECURSIVE ItemErrors(_, _)
ItemErrors(dt, items) ==
    IF items = <<>> THEN Collected(<<>>)
    ELSE LET r == CheckKey(dt, Head(items).k, Head(items).v, FALSE)
             rest == ItemErrors(dt, Tail(items))
         IN  IF r.raised \/ rest.raised THEN Escaped
             ELSE Collected((IF r.ok THEN <<>> ELSE <<r.reason>>) \o rest.errors)

\* the errors of one relevant field
FieldErrors(dt, item) ==
    IF item.k = "status"
    THEN LET r == CheckStatus(dt, item.v) IN
         Collected(IF r.ok THEN <<>> ELSE <<r.reason>>)
    ELSE IF item.v.t # "dict"
    THEN Collected(<<TypeMismatch("'parameters'", "dict", item.v)>>)
    ELSE IF KeySet(item.v.d) \ AllowedParameters(dt, InitialGlobals) # {}
    THEN Collected(<<DisallowedError(CaseLabel(dt),
                        KeySet(item.v.d) \ AllowedParameters(dt, InitialGlobals),
                        AllowedParameters(dt, InitialGlobals))>>)
    ELSE ItemErrors(dt, item.v.d)

RECURSIVE FieldsErrors(_, _)
FieldsErrors(dt, fields) ==
    IF fields = <<>> THEN Collected(<<>>)
    ELSE LET first == FieldErrors(dt, Head(fields))
             rest == FieldsErrors(dt, Tail(fields))
         IN  IF first.raised \/ rest.raised THEN Escaped
             ELSE Collected(first.errors \o rest.errors)

\* the outcome of an update as a function of those inputs alone
UpdateOutcome(dt, hasId, hasType, fields) ==
    LET readOnly == (IF hasId THEN <<ReadOnlyField("id")>> ELSE <<>>)
                    \o (IF hasType THEN <<ReadOnlyField("type")>> ELSE <<>>)
    IN  IF readOnly # <<>> THEN Outcome(FALSE, readOnly)
        ELSE IF ~Hashable(dt) THEN NoOutcome
        ELSE IF ~IsKnown(dt) THEN Outcome(FALSE, <<DeviceTypeError(dt, DEVICE_TYPES)>>)
        ELSE LET c == FieldsErrors(dt, fields) IN
             IF c.raised THEN NoOutcome
             ELSE Outcome(c.errors = <<>>, c.errors)

HasOtherField == \E n \in 1..Len(device_data) :
                    device_data[n].k \notin {"id", "type", "status", "parameters"}

\* C20: in update mode the outcome of a call is a function of the device
\* type, the presence of 'id' and of 'type', and the status and parameters
\* fields alone: whatever other top-level keys the record holds (room, name,
\* unknown keys) and whatever their values, the call returns the result, or
\* raises, as that function says; so two records that agree on those inputs
\* have the same result, and the other keys never produce an error.
C20_OtherFieldsIrrelevant ==
    (Terminated /\ ~new_device) =>
        LET o == UpdateOutcome(device_type, HasKey(device_data, "id"),
                               HasKey(device_data, "type"),
                               RelevantFields(device_data))
        IN  /\ pc = "raised" <=> o.raised
            /\ pc = "done" => result = o.result

\* an update that holds a room besides an invalid status and parameters with
\* a failing item returns the two errors of status and parameters
C20_Witness ==
    /\ pc = "done"
    /\ ~new_device
    /\ HasOtherField
    /\ NoReadOnlyField
    /\ IsKnown(device_type)
    /\ HasStatus /\ ~StatusValid(device_type.s)
    /\ HasParameters /\ Parameters.t = "dict" /\ Disallowed(device_type.s) = {}
    /\ Len(result.errors) = 2

-----------------------------------------------------------------------------
(* Concurrent calls.  Each call runs validate_device_data in a frame of its
   own; the interpreter runs one call at a time and may switch to another
   between any two steps.  The variables pc .. result hold the frame of the
   running call, saved the frames of the others; log and globals belong to
   the module and are shared. *)

\* most calls that run at the same time
MaxCalls == 2
Calls == 1..MaxCalls

\* `errors` is a list of the module, not of the call
LocalNames_SharedErrors ==
    {"pc", "device_data", "new_device", "device_type", "field_i", "key_i", "result"}

\* lines 141-156, 180, 225: the names bound inside validate_device_data, which
\* every call has in its own frame: the arguments, `errors` (assigned a new
\* list at line 156), the loop variables, the position and the return value
LocalNames ==
    {"pc", "device_data", "new_device", "device_type", "errors", "field_i", "key_i",
     "result"}

Frame ==
    [pc |-> pc, device_data |-> device_data, new_device |-> new_device,
     device_type |-> device_type, errors |-> errors, field_i |-> field_i,
     key_i |-> key_i, result |-> result]
IdleFrame ==
    [pc |-> "idle", device_data |-> <<>>, new_device |-> FALSE,
     device_type |-> PyStr(s_empty), errors |-> <<>>, field_i |-> 0,
     key_i |-> 0, result |-> NoResult]

\* what a name refers to once the frame `frame` is the running one
Resumed(name, now, frame) == IF name \in LocalNames THEN frame[name] ELSE now

\* the calls the concurrent runs make
ConcurrentCalls ==
    { [nd |-> FALSE, dt |-> PyStr(s_light),
       data |-> <<Item("status", PyStr(s_on)),
                  Item("parameters",
                       PyDict(<<Item("brightness", PyInt(MAX_BRIGHTNESS + 1)),
                                Item("is_dimmable", PyBool(TRUE))>>))>>],
      [nd |-> FALSE, dt |-> PyStr(s_door_lock),
       data |-> <<Item("room", PyStr(s_on)),
                  Item("status", PyStr(s_on)),
                  Item("parameters", PyDict(<<Item("bogus", PyInt(1))>>))>>],
      [nd |-> TRUE, dt |-> PyStr(s_curtain),
       data |-> Record(<<"id", "type", "room", "name", "status", "parameters">>,
                       PyStr(s_curtain), PyStr(s_open),
                       PyDict(<<Item("position", PyInt(MAX_POSITION))>>))],
      [nd |-> FALSE, dt |-> PyStr(s_water_heater),
       data |-> <<Item("parameters", PyDict(<<Item("temperature", PyNone)>>))>>],
      [nd |-> FALSE, dt |-> PyStr(s_light),
       data |-> <<Item("parameters",
                       PyDict(<<Item("brightness", PyInt(MAX_BRIGHTNESS))>>))>>],
      [nd |-> FALSE, dt |-> PyStr(s_curtain),
       data |-> <<Item("id", PyStr(s_on)), Item("type", PyStr(s_curtain)),
                  Item("status", PyStr(s_on))>>] }

InitConcurrent ==
    /\ pc = "idle"
    /\ device_data = <<>>
    /\ new_device = FALSE
    /\ device_type = PyStr(s_empty)
    /\ errors = <<>>
    /\ field_i = 0
    /\ key_i = 0
    /\ result = NoResult
    /\ log = <<>>
    /\ globals = InitialGlobals
    /\ current = 1
    /\ saved = [t \in Calls |-> IdleFrame]

\* the running call enters validate_device_data, lines 141 and 156
CallSample ==
    /\ pc = "idle"
    /\ \E c \in ConcurrentCalls :
          /\ device_data' = c.data
          /\ new_device' = c.nd
          /\ device_type' = IF c.nd THEN PyStr(s_empty) ELSE c.dt
    /\ errors' = <<>>
    /\ pc' = "shape"
    /\ UNCHANGED <<field_i, key_i, result, log, globals, current, saved>>

\* the interpreter switches to a call that has not ended
Switch ==
    \E t \in Calls \ {current} :
        /\ saved[t].pc \notin {"done", "raised"}
        /\ saved' = [saved EXCEPT ![current] = Frame, ![t] = IdleFrame]
        /\ current' = t
        /\ pc' = Resumed("pc", pc, saved[t])
        /\ device_data' = Resumed("device_data", device_data, saved[t])
        /\ new_device' = Resumed("new_device", new_device, saved[t])
        /\ device_type' = Resumed("device_type", device_type, saved[t])
        /\ errors' = Resumed("errors", errors, saved[t])
        /\ field_i' = Resumed("field_i", field_i, saved[t])
        /\ key_i' = Resumed("key_i", key_i, saved[t])
        /\ result' = Resumed("result", result, saved[t])
        /\ UNCHANGED <<log, globals>>

NextConcurrent ==
    \/ CallSample
    \/ CheckNewDevice
    \/ CheckUpdate
    \/ CheckDeviceType
    \/ StatusField
    \/ ParametersField
    \/ OtherField
    \/ ParameterKey
    \/ ParametersDone
    \/ Finish
    \/ Switch

SpecConcurrent == InitConcurrent /\ [][NextConcurrent]_vars

-----------------------------------------------------------------------------
(* What a call returns when it runs alone, as a function of its arguments *)

\* the errors of the items of a parameters mapping, unless a check raises
RECURSIVE ItemErrorsOf(_, _, _)
ItemErrorsOf(dt, items, nd) ==
    IF items = <<>> THEN Collected(<<>>)
    ELSE LET r == CheckKey(dt, Head(items).k, Head(items).v, nd)
             rest == ItemErrorsOf(dt, Tail(items), nd)
         IN  IF r.raised THEN Escaped
             ELSE IF rest.raised THEN Escaped
             ELSE Collected((IF r.ok THEN <<>> ELSE <<r.reason>>) \o rest.errors)

\* the errors of the status field or of the parameters field
FieldErrorsOf(dt, item, nd) ==
    IF item.k = "status"
    THEN LET r == CheckStatus(dt, item.v) IN
         Collected(IF r.ok THEN <<>> ELSE <<r.reason>>)
    ELSE IF item.v.t # "dict"
    THEN Collected(<<TypeMismatch("'parameters'", "dict", item.v)>>)
    ELSE IF KeySet(item.v.d) \ AllowedParameters(dt, InitialGlobals) # {}
    THEN Collected(<<DisallowedError(CaseLabel(dt),
                        KeySet(item.v.d) \ AllowedParameters(dt, InitialGlobals),
                        AllowedParameters(dt, InitialGlobals))>>)
    ELSE ItemErrorsOf(dt, item.v.d, nd)

RECURSIVE FieldsErrorsOf(_, _, _)
FieldsErrorsOf(dt, fields, nd) ==
    IF fields = <<>> THEN Collected(<<>>)
    ELSE LET first == FieldErrorsOf(dt, Head(fields), nd)
             rest == FieldsErrorsOf(dt, Tail(fields), nd)
         IN  IF first.raised THEN Escaped
             ELSE IF rest.raised THEN Escaped
             ELSE Collected(first.errors \o rest.errors)

\* from the device type check of line 176 on
TypedOutcome(dt, data, nd) ==
    IF ~Hashable(dt) THEN NoOutcome
    ELSE IF ~IsKnown(dt) THEN Outcome(FALSE, <<DeviceTypeError(dt, DEVICE_TYPES)>>)
    ELSE LET c == FieldsErrorsOf(dt, RelevantFields(data), nd) IN
         IF c.raised THEN NoOutcome ELSE Outcome(c.errors = <<>>, c.errors)

CallOutcome(data, nd, dt) ==
    IF nd
    THEN IF ShapeError(data, InitialGlobals) # <<>>
         THEN Outcome(FALSE, ShapeError(data, InitialGlobals))
         ELSE TypedOutcome(Lookup(data, "type"), data, TRUE)
    ELSE IF ReadOnlyFieldErrors(data) # <<>>
         THEN Outcome(FALSE, ReadOnlyFieldErrors(data))
         ELSE TypedOutcome(dt, data, FALSE)

\* a call that runs alone returns what CallOutcome says
AloneOutcome ==
    Terminated =>
        LET o == CallOutcome(device_data, new_device, device_type) IN
        /\ pc = "raised" <=> o.raised
        /\ pc = "done" => result = o.result

\* the frame of a call, running or switched out
FrameOf(t) == IF t = current THEN Frame ELSE saved[t]
Ended(t) == FrameOf(t).pc \in {"done", "raised"}

\* C21: concurrent calls are independent: in every interleaving of the steps
\* of the calls, each call that ends returns the result, or raises, exactly as
\* the same call does when it runs alone, whatever the other calls are and
\* wherever the interpreter switches between them; the configuration the
\* calls share is never written.
C21_CallsIndependent ==
    /\ globals = InitialGlobals
    /\ \A t \in Calls :
          Ended(t) =>
              LET f == FrameOf(t)
                  o == CallOutcome(f.device_data, f.new_device, f.device_type)
              IN  /\ f.pc = "raised" <=> o.raised
                  /\ f.pc = "done" => f.result = o.result

\* two calls have returned two errors each, and the log shows that their
\* checks alternated: first, third record of one call, second, fourth of the
\* other
C21_Witness ==
    /\ \A t \in Calls : Ended(t)
    /\ Len(log) = 4
    /\ \E t, u \in Calls :
          /\ t # u
          /\ FrameOf(t).pc = "done" /\ FrameOf(u).pc = "done"
          /\ FrameOf(t).result.errors = <<log[1], log[3]>>
          /\ FrameOf(u).result.errors = <<log[2], log[4]>>
          /\ log[1] # log[2]

=============================================================================
